---- MODULE Spec2Model ----
(***************************************************************************)
(* Model of src/analyze.py: compute_metrics, the practice-level            *)
(* aggregation, rate, funnel-plot control limits and outlier flag.         *)
(*                                                                         *)
(* A table is a record [cols, rows]: the set of columns the DataFrame has  *)
(* and its rows in order.  A cell is a tagged pair: a missing value (NaN), *)
(* a string that does not parse as a number, or a non-negative integer.    *)
(* Floating point values are modelled by exact numbers: NaN, a rational,   *)
(* or mean +/- sqrt(q) for the control limits, compared exactly.           *)
(*                                                                         *)
(* Input domain: practice codes are never missing, items and list sizes    *)
(* are non-negative integers when they are numbers.  DataFrame.apply on a  *)
(* frame without rows gives an empty column (pandas 1.5 and later).        *)
(***************************************************************************)
EXTENDS Integers, Sequences, FiniteSets

VARIABLES df, result, row, flag

vars == <<df, result, row, flag>>

\* Largest number of observations in the tidy table.
MaxRows == 3

-----------------------------------------------------------------------------
(* Cells of the input table *)

NA == <<"na", 0>>
Str == <<"str", 0>>
Absent == <<"absent", 0>>
Raised == <<"raise", 0>>
IntCell(n) == <<"int", n>>

PracticeCodes == {1, 2}
ItemValues == {NA, Str, IntCell(10), IntCell(100)}
ListSizeValues == {NA, Str, IntCell(1000)}

RequiredColumns == {"practice_code", "items", "list_size"}
AllColumns == RequiredColumns \cup {"month"}
ColumnSets ==
    {AllColumns} \cup {AllColumns \ {c} : c \in RequiredColumns} \cup {{}}

\* The rows a table with columns cols can hold.
RowsOf(cols) ==
    [practice_code : IF "practice_code" \in cols THEN PracticeCodes ELSE {Absent},
     items : IF "items" \in cols THEN ItemValues ELSE {Absent},
     list_size : IF "list_size" \in cols THEN ListSizeValues ELSE {Absent}]

-----------------------------------------------------------------------------
(* Exact arithmetic standing for float64 *)

RECURSIVE GCD(_, _)
GCD(a, b) == IF b = 0 THEN a ELSE GCD(b, a % b)

Abs(x) == IF x < 0 THEN -x ELSE x

\* The fraction n/d (d # 0) in lowest terms with a positive denominator.
Frac(n, d) ==
    LET g == GCD(Abs(n), Abs(d))
        s == IF d < 0 THEN -1 ELSE 1
    IN  <<s * (n \div g), s * (d \div g)>>

RAdd(x, y) == Frac(x[1] * y[2] + y[1] * x[2], x[2] * y[2])
RSub(x, y) == Frac(x[1] * y[2] - y[1] * x[2], x[2] * y[2])
RMul(x, y) == Frac(x[1] * y[1], x[2] * y[2])
RDiv(x, y) == Frac(x[1] * y[2], x[2] * y[1])
\* x < y, by integer part first and then by the remainders.
RLess(x, y) ==
    LET fx == x[1] \div x[2]
        fy == y[1] \div y[2]
    IN  \/ fx < fy
        \/ fx = fy /\ (x[1] % x[2]) * y[2] < (y[1] % y[2]) * x[2]
Zero == Frac(0, 1)

\* A float: NaN, or the real number a + s * sqrt(q) with s in {-1, 0, 1}.
NaN == [nan |-> TRUE, a |-> Zero, s |-> 0, q |-> Zero]
Num(a) == [nan |-> FALSE, a |-> a, s |-> 0, q |-> Zero]
Surd(a, s, q) ==
    IF q = Zero THEN Num(a) ELSE [nan |-> FALSE, a |-> a, s |-> s, q |-> q]
IsNaN(x) == x.nan

\* The real number d exceeds s * sqrt(q).
ExceedsRoot(d, s, q) ==
    CASE s = 0 -> RLess(Zero, d)
      [] s = 1 -> RLess(Zero, d) /\ RLess(q, RMul(d, d))
      [] OTHER -> \/ ~RLess(d, Zero)
                  \/ RLess(RMul(d, d), q)

\* x > y and x < y on floats, x rational; a comparison with NaN is false.
Gt(x, y) ==
    /\ ~IsNaN(x) /\ ~IsNaN(y)
    /\ ExceedsRoot(RSub(x.a, y.a), y.s, y.q)
Lt(x, y) ==
    /\ ~IsNaN(x) /\ ~IsNaN(y)
    /\ ExceedsRoot(RSub(y.a, x.a), -y.s, y.q)

-----------------------------------------------------------------------------
(* pandas operations used by compute_metrics *)

\* df.empty: an axis of length 0.
empty(t) == Len(t.rows) = 0 \/ t.cols = {}

\* df.get(col, zeros): a column in every case.
getOrZeros(t, col) == "column"

\* df.get(col): the column, or None when the table has none of that name.
get(t, col) == IF col \in t.cols THEN "column" ELSE "None"

\* df.dropna(): the rows with no missing value, list_size included.
dropnaAny(rows) == SelectSeq(rows, LAMBDA r : r.items # NA /\ r.list_size # NA)

\* df.dropna(subset=["items"]): the rows whose items is not missing.
dropna(rows) == SelectSeq(rows, LAMBDA r : r.items # NA)

\* Series.fillna(v)
fillna(c, v) == IF c = NA THEN IntCell(v) ELSE c

\* errors= of both pd.to_numeric calls
CoerceModeRaise == "raise"
CoerceMode == "coerce"

\* pd.to_numeric of one cell: a number stays, anything else is NaN under
\* errors="coerce" and raises otherwise.
to_numeric(c) ==
    IF c[1] = "int" THEN c
    ELSE IF c = NA \/ CoerceMode = "coerce" THEN NA
    ELSE Raised

\* Lines 48-51 on one retained row.
Convert(r) ==
    [practice_code |-> r.practice_code,
     items |-> fillna(to_numeric(r.items), 0),
     list_size |-> fillna(to_numeric(fillna(r.list_size, 0)), 0)]

ConvertAll(rows) == [i \in 1..Len(rows) |-> Convert(rows[i])]

ConversionRaises(rows) ==
    \E i \in 1..Len(rows) : Raised \in {rows[i].items, rows[i].list_size}

\* The sum of column col over the rows of practice code k, in row order.
RECURSIVE GroupSum(_, _, _)
GroupSum(rows, k, col) ==
    IF rows = <<>> THEN 0
    ELSE (IF Head(rows).practice_code = k THEN Head(rows)[col][2] ELSE 0)
         + GroupSum(Tail(rows), k, col)

Min(S) == CHOOSE x \in S : \A y \in S : x <= y

\* The group keys in ascending order (groupby sorts its keys).
RECURSIVE SortedKeys(_)
SortedKeys(S) ==
    IF S = {} THEN <<>> ELSE <<Min(S)>> \o SortedKeys(S \ {Min(S)})

\* The group keys in order of first appearance (what sort=False would give).
RECURSIVE AppearanceKeys(_, _)
AppearanceKeys(rows, seen) ==
    IF rows = <<>> THEN <<>>
    ELSE IF Head(rows).practice_code \in seen
         THEN AppearanceKeys(Tail(rows), seen)
         ELSE <<Head(rows).practice_code>>
              \o AppearanceKeys(Tail(rows), seen \cup {Head(rows).practice_code})

GroupKeysUnsorted(rows) == AppearanceKeys(rows, {})
GroupKeys(rows) == SortedKeys({rows[i].practice_code : i \in 1..Len(rows)})

\* df.groupby("practice_code").agg(sum of items, sum of list_size).reset_index()
groupby_agg(rows) ==
    LET keys == GroupKeys(rows)
    IN  [i \in 1..Len(keys) |->
            [practice_code |-> keys[i],
             total_items |-> GroupSum(rows, keys[i], "items"),
             total_list_size |-> GroupSum(rows, keys[i], "list_size")]]

-----------------------------------------------------------------------------
(* compute_metrics *)

\* pd.DataFrame(): a frame without columns.
EmptyColumnsNone == <<>>

\* The columns of the frame returned for an empty input, in order.
EmptyColumns ==
    <<"practice_code", "total_items", "total_list_size", "rate_per_1000",
      "mean_rate", "ucl95", "ucl998", "lcl95", "lcl998", "outlier">>

\* The columns of the frame built from a non-empty input, in order.
MetricColumns ==
    <<"practice_code", "total_items", "total_list_size", "rate_per_1000",
      "mean_rate", "ucl95", "lcl95", "ucl998", "lcl998", "outlier">>

Frame(columns, rows) == [status |-> "ok", columns |-> columns, rows |-> rows]
Raise(exc) == [status |-> exc, columns |-> <<>>, rows |-> <<>>]
NoResult == [status |-> "none", columns |-> <<>>, rows |-> <<>>]

EmptyFrame == Frame(EmptyColumns, <<>>)

\* The rate is per RateScale patients; the size of a practice is its list
\* size in units of SizeScale patients; the two z values.
RateScale == 1000
SizeScale == 1000
Z95 == Frac(196, 100)
Z998 == Frac(309, 100)

\* The rate with 0 in place of NaN for a practice without patients.
rateZeroFill(g) ==
    IF g.total_list_size > 0
    THEN Num(RMul(Frac(g.total_items, g.total_list_size), Frac(RateScale, 1)))
    ELSE Num(Zero)

\* np.where(total_list_size > 0, total_items / total_list_size * 1000.0, nan)
rate_per_1000(g) ==
    IF g.total_list_size > 0
    THEN Num(RMul(Frac(g.total_items, g.total_list_size), Frac(RateScale, 1)))
    ELSE NaN

RECURSIVE SumDefined(_)
SumDefined(rates) ==
    IF rates = <<>> THEN Zero
    ELSE IF IsNaN(Head(rates)) THEN SumDefined(Tail(rates))
    ELSE RAdd(Head(rates).a, SumDefined(Tail(rates)))

CountDefined(rates) == Cardinality({i \in 1..Len(rates) : ~IsNaN(rates[i])})

\* Series.mean(skipna=False): NaN as soon as one rate is NaN.
MeanKeepNaN(rates) ==
    IF CountDefined(rates) = 0 \/ CountDefined(rates) < Len(rates) THEN NaN
    ELSE Num(RDiv(SumDefined(rates), Frac(CountDefined(rates), 1)))

\* Series.mean(skipna=True): the mean of the rates that are not NaN, NaN when
\* there is none.
Mean(rates) ==
    IF CountDefined(rates) = 0 THEN NaN
    ELSE Num(RDiv(SumDefined(rates), Frac(CountDefined(rates), 1)))

\* limits with se = sqrt(mean_rate / (size * 1000)): the list size taken
\* in patients, not in thousands.
limitsUnscaled(size, z, mean_rate) ==
    IF ~RLess(Zero, size) \/ IsNaN(mean_rate) THEN <<NaN, NaN>>
    ELSE LET q == RMul(RMul(z, z), RDiv(mean_rate.a, RMul(size, Frac(SizeScale, 1))))
         IN  <<Surd(mean_rate.a, 1, q), Surd(mean_rate.a, -1, q)>>

\* limits with se = sqrt(mean_rate): the same band for every practice.
limitsNoSize(size, z, mean_rate) ==
    IF ~RLess(Zero, size) \/ IsNaN(mean_rate) THEN <<NaN, NaN>>
    ELSE LET q == RMul(RMul(z, z), mean_rate.a)
         IN  <<Surd(mean_rate.a, 1, q), Surd(mean_rate.a, -1, q)>>

\* limits(size, z) with mean_rate of the enclosing call; size is a rational.
\* The pair is <<upper, lower>>.
limits(size, z, mean_rate) ==
    IF ~RLess(Zero, size) \/ IsNaN(mean_rate) THEN <<NaN, NaN>>
    ELSE LET q == RMul(RMul(z, z), RDiv(mean_rate.a, size))
         IN  <<Surd(mean_rate.a, 1, q), Surd(mean_rate.a, -1, q)>>

\* classify with >= and <= in place of > and <.
classifyInclusive(r) ==
    IF IsNaN(r.rate_per_1000) THEN ""
    ELSE IF ~Lt(r.rate_per_1000, r.ucl998) /\ ~IsNaN(r.ucl998) THEN "high"
    ELSE IF ~Gt(r.rate_per_1000, r.lcl998) /\ ~IsNaN(r.lcl998) THEN "low"
    ELSE ""

classify(r) ==
    IF IsNaN(r.rate_per_1000) THEN ""
    ELSE IF Gt(r.rate_per_1000, r.ucl998) THEN "high"
    ELSE IF Lt(r.rate_per_1000, r.lcl998) THEN "low"
    ELSE ""

\* One output row without its flag: lines 59-91 for one practice.
MetricRow(g, mean_rate) ==
    LET size == Frac(g.total_list_size, SizeScale)
        l95 == limits(size, Z95, mean_rate)
        l998 == limits(size, Z998, mean_rate)
    IN  [practice_code |-> g.practice_code,
         total_items |-> g.total_items,
         total_list_size |-> g.total_list_size,
         rate_per_1000 |-> rate_per_1000(g),
         mean_rate |-> mean_rate,
         ucl95 |-> l95[1], lcl95 |-> l95[2],
         ucl998 |-> l998[1], lcl998 |-> l998[2]]

WithFlag(r) ==
    [c \in DOMAIN r \cup {"outlier"} |-> IF c = "outlier" THEN classify(r) ELSE r[c]]

\* Lines 59-106: the metrics of the aggregated frame.
Metrics(grouped) ==
    LET rates == [i \in 1..Len(grouped) |-> rate_per_1000(grouped[i])]
        mean_rate == Mean(rates)
    IN  [i \in 1..Len(grouped) |-> WithFlag(MetricRow(grouped[i], mean_rate))]

\* The checks come in the order of the statements that raise: dropna on a
\* missing items column, fillna on the None that get returns, groupby on a
\* missing practice_code column.
compute_metrics(t) ==
    IF empty(t) THEN EmptyFrame
    ELSE IF "items" \notin t.cols THEN Raise("KeyError")
    ELSE IF get(t, "list_size") = "None" THEN Raise("AttributeError")
    ELSE LET converted == ConvertAll(dropna(t.rows))
         IN  IF ConversionRaises(converted) THEN Raise("ValueError")
             ELSE IF "practice_code" \notin t.cols THEN Raise("KeyError")
             ELSE Frame(MetricColumns, Metrics(groupby_agg(converted)))

\* The caller's table after a call: dropna returns a new frame and the call
\* works on its copy.
CallerFrame(t) == t

-----------------------------------------------------------------------------
(* The run: the tidy table is built row by row, then analysed *)

NoRow == [total_list_size |-> 0, rate_per_1000 |-> NaN, mean_rate |-> NaN,
          ucl95 |-> NaN, lcl95 |-> NaN, ucl998 |-> NaN, lcl998 |-> NaN]
NoFlag == "unset"

Init ==
    /\ df \in [cols : ColumnSets, rows : {<<>>}]
    /\ result = NoResult
    /\ row = NoRow
    /\ flag = NoFlag

\* The cleaning step hands over one more observation.
AppendRow ==
    /\ result = NoResult
    /\ Len(df.rows) < MaxRows
    /\ \E r \in RowsOf(df.cols) : df' = [df EXCEPT !.rows = Append(@, r)]
    /\ UNCHANGED <<result, row, flag>>

\* metrics = compute_metrics(df)
Compute ==
    /\ result' = compute_metrics(df)
    /\ df' = CallerFrame(df)
    /\ UNCHANGED <<row, flag>>

Next == AppendRow \/ Compute

Spec == Init /\ [][Next]_vars

-----------------------------------------------------------------------------
(* classify on its own: the row is drawn, then classified *)

ProbeRates ==
    {NaN} \cup {Num(Frac(n, 100)) : n \in {0, 91, 100, 200, 400, 500, 600, 709, 809}}
ProbeMeans == {NaN, Num(Zero), Num(Frac(4, 1))}
ProbeListSizes == {0, 1000, 4000}

ProbeRow(rate, mean_rate, total_list_size) ==
    LET size == Frac(total_list_size, SizeScale)
        l95 == limits(size, Z95, mean_rate)
        l998 == limits(size, Z998, mean_rate)
    IN  [total_list_size |-> total_list_size, rate_per_1000 |-> rate,
         mean_rate |-> mean_rate, ucl95 |-> l95[1], lcl95 |-> l95[2],
         ucl998 |-> l998[1], lcl998 |-> l998[2]]

InitClassify ==
    /\ df = [cols |-> AllColumns, rows |-> <<>>]
    /\ result = NoResult
    /\ \E rate \in ProbeRates, m \in ProbeMeans, n \in ProbeListSizes :
          row = ProbeRow(rate, m, n)
    /\ flag = NoFlag

\* grouped.apply(classify, axis=1) on one row
Classify ==
    /\ flag = NoFlag
    /\ flag' = classify(row)
    /\ UNCHANGED <<df, result, row>>

NextClassify == Classify

SpecClassify == InitClassify /\ [][NextClassify]_vars

-----------------------------------------------------------------------------
(* Properties *)

Called == result.status # "none"
Ok == result.status = "ok"
Failed == result.status \notin {"none", "ok"}

Range(f) == {f[i] : i \in DOMAIN f}

\* The number a cell stands for once coerced: what does not parse counts 0.
Value(c) == IF c[1] = "int" THEN c[2] ELSE 0

\* The observations of practice e with a defined numerator (none in a table
\* without the practice_code or the items column).
Obs(t, e) ==
    IF {"practice_code", "items"} \subseteq t.cols
    THEN {i \in 1..Len(t.rows) :
            t.rows[i].practice_code = e /\ t.rows[i].items # NA}
    ELSE {}

RECURSIVE SumOver(_, _, _)
SumOver(rows, S, col) ==
    IF S = {} THEN 0
    ELSE LET i == CHOOSE x \in S : TRUE
         IN  Value(rows[i][col]) + SumOver(rows, S \ {i}, col)

Retained(t) == {e \in PracticeCodes : Obs(t, e) # {}}

C2_RateDefined ==
    Ok =>
        \A i \in 1..Len(result.rows) :
            LET r == result.rows[i]
            IN  /\ IsNaN(r.rate_per_1000) <=> r.total_list_size = 0
                /\ r.total_list_size # 0 =>
                      r.rate_per_1000 = Num(Frac(r.total_items * 1000, r.total_list_size))
                /\ r.total_list_size = 0 => r.rate_per_1000 # Num(Zero)

C2_Witness ==
    /\ Ok
    /\ \E i, j \in 1..Len(result.rows) :
          /\ result.rows[i].total_list_size = 0
          /\ result.rows[i].total_items > 0
          /\ result.rows[j].total_list_size > 0
          /\ result.rows[j].rate_per_1000 = Num(Frac(100, 1))

\* The mean of the defined rates of the output rows, from its definition.
DefinedRows(rows) == {i \in 1..Len(rows) : ~IsNaN(rows[i].rate_per_1000)}

RECURSIVE RateSum(_, _)
RateSum(rows, S) ==
    IF S = {} THEN Zero
    ELSE LET i == CHOOSE x \in S : TRUE
         IN  RAdd(rows[i].rate_per_1000.a, RateSum(rows, S \ {i}))

MeanOfDefined(rows) ==
    IF DefinedRows(rows) = {} THEN NaN
    ELSE Num(RDiv(RateSum(rows, DefinedRows(rows)),
                  Frac(Cardinality(DefinedRows(rows)), 1)))

\* The table without the observations of practice e.
Without(t, e) ==
    [t EXCEPT !.rows = SelectSeq(t.rows, LAMBDA r : r.practice_code # e)]

\* Practice e is in the table and its list sizes sum to 0.
ZeroSizePractice(t, e) ==
    LET S == {i \in 1..Len(t.rows) : t.rows[i].practice_code = e}
    IN  S # {} /\ \A i \in S : Value(t.rows[i].list_size) = 0

\* C3: mean_rate is the same on every row and is the unweighted mean of the
\* defined rates; a table with an added practice whose total_list_size is 0
\* has the mean_rate of the table without it, and every other practice's
\* row (limits and flag included) is as it is without it.
C3_MeanExclusion ==
    (Ok /\ RequiredColumns \subseteq df.cols) =>
        /\ \A i \in 1..Len(result.rows) :
              result.rows[i].mean_rate = MeanOfDefined(result.rows)
        /\ \A e \in PracticeCodes :
              ZeroSizePractice(df, e) =>
                  LET before == compute_metrics(Without(df, e))
                  IN  /\ before.status = "ok"
                      /\ Range(before.rows) \subseteq Range(result.rows)
                      /\ MeanOfDefined(before.rows) = MeanOfDefined(result.rows)
                      /\ \A i \in 1..Len(before.rows) :
                            before.rows[i].mean_rate = MeanOfDefined(result.rows)

C3_Witness ==
    /\ Ok
    /\ \E i, j \in 1..Len(result.rows) :
          /\ IsNaN(result.rows[i].rate_per_1000)
          /\ result.rows[i].total_items > 0
          /\ result.rows[j].rate_per_1000 = Num(Frac(55, 1))
          /\ result.rows[j].mean_rate = Num(Frac(55, 1))

\* The control limits of a row from their definition.
Sq(x) == RMul(x, x)
ExpectedLimit(r, z, sign) ==
    IF r.total_list_size > 0 /\ ~IsNaN(r.mean_rate)
    THEN Surd(r.mean_rate.a, sign,
              RDiv(RMul(Sq(z), r.mean_rate.a), Frac(r.total_list_size, 1000)))
    ELSE NaN

ExampleInput ==
    <<[practice_code |-> 1, items |-> IntCell(10), list_size |-> IntCell(1000)],
      [practice_code |-> 2, items |-> IntCell(100), list_size |-> IntCell(1000)]>>

\* C4: for a practice with total_list_size > 0 in a run with a defined
\* mean_rate the limits are mean_rate +/- z * sqrt(mean_rate /
\* (total_list_size / 1000)), z = 1.96 and 3.09; otherwise all four are NaN.
\* For A (10, 1000) and B (100, 1000): rates 10 and 100, mean 55, A low,
\* B high.
C4_Limits ==
    Ok =>
        /\ \A i \in 1..Len(result.rows) :
              LET r == result.rows[i]
              IN  /\ r.ucl95 = ExpectedLimit(r, Frac(196, 100), 1)
                  /\ r.lcl95 = ExpectedLimit(r, Frac(196, 100), -1)
                  /\ r.ucl998 = ExpectedLimit(r, Frac(309, 100), 1)
                  /\ r.lcl998 = ExpectedLimit(r, Frac(309, 100), -1)
        /\ (df.cols = AllColumns /\ df.rows = ExampleInput) =>
              /\ Len(result.rows) = 2
              /\ result.rows[1].rate_per_1000 = Num(Frac(10, 1))
              /\ result.rows[2].rate_per_1000 = Num(Frac(100, 1))
              /\ result.rows[1].mean_rate = Num(Frac(55, 1))
              /\ result.rows[1].outlier = "low"
              /\ result.rows[2].outlier = "high"

C4_Witness ==
    /\ Ok
    /\ df.cols = AllColumns
    /\ df.rows = ExampleInput
    /\ result.rows[2].ucl998 = Surd(Frac(55, 1), 1, Frac(95481 * 55, 10000))
    /\ Gt(result.rows[2].rate_per_1000, result.rows[2].ucl998)

\* The square of the width upper - lower of a band.
Width2(upper, lower) ==
    IF IsNaN(upper) \/ IsNaN(lower) THEN Zero
    ELSE RMul(Frac(4, 1), upper.q)

SameRatio(r1, r2) ==
    r1.total_items * r2.total_list_size = r2.total_items * r1.total_list_size

\* C5 as claimed: of two practices with the same ratio and different
\* positive total_list_size, the larger has the strictly narrower band at
\* both levels.
C5_Original ==
    Ok =>
        \A i, j \in 1..Len(result.rows) :
            LET r1 == result.rows[i]
                r2 == result.rows[j]
            IN  (/\ r1.total_list_size > r2.total_list_size
                 /\ r2.total_list_size > 0
                 /\ SameRatio(r1, r2)) =>
                    /\ RLess(Width2(r1.ucl95, r1.lcl95), Width2(r2.ucl95, r2.lcl95))
                    /\ RLess(Width2(r1.ucl998, r1.lcl998), Width2(r2.ucl998, r2.lcl998))

\* C5 amended: the same when mean_rate > 0; when mean_rate is 0 both bands
\* have width 0.
C5_Monotone ==
    Ok =>
        \A i, j \in 1..Len(result.rows) :
            LET r1 == result.rows[i]
                r2 == result.rows[j]
            IN  (/\ r1.total_list_size > r2.total_list_size
                 /\ r2.total_list_size > 0
                 /\ SameRatio(r1, r2)) =>
                    IF RLess(Zero, r1.mean_rate.a)
                    THEN /\ RLess(Width2(r1.ucl95, r1.lcl95), Width2(r2.ucl95, r2.lcl95))
                         /\ RLess(Width2(r1.ucl998, r1.lcl998),
                                  Width2(r2.ucl998, r2.lcl998))
                    ELSE /\ r1.ucl95 = r1.lcl95 /\ r2.ucl95 = r2.lcl95
                         /\ r1.ucl998 = r1.lcl998 /\ r2.ucl998 = r2.lcl998
                         /\ r1.ucl998 = Num(Zero) /\ r2.ucl998 = Num(Zero)

C5_Witness ==
    /\ Ok
    /\ \E i, j \in 1..Len(result.rows) :
          /\ result.rows[i].total_list_size > result.rows[j].total_list_size
          /\ result.rows[j].total_list_size > 0
          /\ SameRatio(result.rows[i], result.rows[j])
          /\ RLess(Zero, result.rows[i].mean_rate.a)

\* C6: the flag of a row depends on its rate, ucl998 and lcl998 alone, with
\* strict comparisons: high iff the rate is defined and above ucl998, low
\* iff it is defined and below lcl998, "" (none) otherwise; a rate equal to
\* a 99.8% limit, a NaN rate, and a rate between the 95% and the 99.8%
\* limits all give "".
C6_Classification ==
    flag # NoFlag =>
        LET rate == row.rate_per_1000
        IN  /\ flag \in {"", "high", "low"}
            /\ flag = "high" <=> (~IsNaN(rate) /\ Gt(rate, row.ucl998))
            /\ flag = "low" <=> (~IsNaN(rate) /\ Lt(rate, row.lcl998))
            /\ (~IsNaN(rate) /\ ~IsNaN(row.ucl998)
                    /\ Sq(RSub(rate.a, row.ucl998.a)) = row.ucl998.q) => flag = ""
            /\ IsNaN(rate) => flag = ""
            /\ (/\ Gt(rate, row.ucl95) \/ Lt(rate, row.lcl95)
                /\ ~Gt(rate, row.ucl998)
                /\ ~Lt(rate, row.lcl998)) => flag = ""

\* A rate exactly on the upper 99.8% limit 4 + 3.09 * sqrt(4 / 4) = 7.09.
C6_Witness ==
    /\ flag = ""
    /\ row.rate_per_1000 = Num(Frac(709, 100))
    /\ row.ucl998 = Surd(Frac(4, 1), 1, Frac(95481, 10000))
    /\ Gt(row.rate_per_1000, row.ucl95)

OutputColumns ==
    {"practice_code", "total_items", "total_list_size", "rate_per_1000",
     "mean_rate", "ucl95", "lcl95", "ucl998", "lcl998", "outlier"}

Limits(r) == {r.ucl95, r.lcl95, r.ucl998, r.lcl998}

\* C7: on a table with the three required columns, whatever its cells,
\* compute_metrics returns a table: ten columns, one row per retained
\* practice; with no defined rate every limit is NaN and every flag "";
\* a non-empty table whose items are all missing gives zero rows.
C7_NeverRaises ==
    (Called /\ RequiredColumns \subseteq df.cols) =>
        /\ Ok
        /\ Len(result.columns) = 10
        /\ Range(result.columns) = OutputColumns
        /\ \A i \in 1..Len(result.rows) : DOMAIN result.rows[i] = OutputColumns
        /\ Len(result.rows) = Cardinality(Retained(df))
        /\ \A i, j \in 1..Len(result.rows) :
              result.rows[i].practice_code = result.rows[j].practice_code => i = j
        /\ DefinedRows(result.rows) = {} =>
              \A i \in 1..Len(result.rows) :
                  /\ Limits(result.rows[i]) = {NaN}
                  /\ result.rows[i].outlier = ""
        /\ (Len(df.rows) > 0 /\ \A i \in 1..Len(df.rows) : df.rows[i].items = NA) =>
              result.rows = <<>>

\* A run over a non-numeric numerator, a non-numeric and a missing
\* denominator, where no practice has a defined rate.
C7_Witness ==
    /\ Ok
    /\ Len(result.rows) = 2
    /\ DefinedRows(result.rows) = {}
    /\ \E i, j, k \in 1..Len(df.rows) :
          /\ df.rows[i].items = Str
          /\ df.rows[j].list_size = Str
          /\ df.rows[k].list_size = NA /\ df.rows[k].items = IntCell(100)

\* C8: a table with no observation gives, without error, zero rows under
\* the ten output columns, the column set of every other run.
C8_EmptyInput ==
    /\ (Called /\ Len(df.rows) = 0) =>
          /\ Ok
          /\ result.rows = <<>>
          /\ Len(result.columns) = 10
          /\ Range(result.columns) = OutputColumns
    /\ Ok => Range(result.columns) = OutputColumns

C8_Witness ==
    /\ Ok
    /\ df.cols = AllColumns
    /\ Len(df.rows) = 0
    /\ Len(result.columns) = 10

LacksColumn == ~(RequiredColumns \subseteq df.cols)

\* C9 as claimed: a table that lacks a required column, whatever rows it
\* holds, makes the call fail.
C9_Original == (Called /\ LacksColumn) => Failed

\* C9 amended: a table that lacks a required column and has at least one
\* row and one column makes the call fail; with no row, or no column at
\* all, the call returns the empty ten-column table.
C9_MissingColumn ==
    (Called /\ LacksColumn) =>
        IF Len(df.rows) > 0 /\ df.cols # {}
        THEN Failed /\ result.rows = <<>> /\ result.columns = <<>>
        ELSE Ok /\ result.rows = <<>> /\ Range(result.columns) = OutputColumns

C9_Witness ==
    /\ Failed
    /\ "list_size" \notin df.cols
    /\ Len(df.rows) = 2
    /\ \A i \in 1..Len(df.rows) : df.rows[i].items = NA

\* The exchanges of two neighbouring rows of a table of n rows.  Every
\* permutation is a product of these, and every table the run can hold is a
\* state, so what holds for each exchange of each table holds for every
\* permutation.
Exchanges(n) ==
    {[k \in 1..n |-> IF k = i THEN i + 1 ELSE IF k = i + 1 THEN i ELSE k] :
        i \in 1..(n - 1)}

Permuted(t, p) == [t EXCEPT !.rows = [i \in 1..Len(t.rows) |-> t.rows[p[i]]]]

Ascending(rows) ==
    \A i, j \in 1..Len(rows) :
        i < j => rows[i].practice_code < rows[j].practice_code

====
